---- MODULE Spec2Model ----
(***************************************************************************)
(* Model of the racer typing trainer core: the board/tick engine, the      *)
(* keypress resolver, the character bag generator and the adaptive         *)
(* difficulty controller.                                                  *)
(*                                                                         *)
(* Strings of the program are sequences of one-character strings; the      *)
(* board is a sequence of BOARD_SIZE slots whose JavaScript index i is     *)
(* position i + 1 of the sequence.                                         *)
(***************************************************************************)
EXTENDS FiniteSets, Integers, Sequences, TLC

VARIABLES gameState, currentTarget, bagOfChars, difficultyState, call, pc,
          wordsByLength, options, gameInterval, intervals,
          isWaitingForContinue, transitionTimeouts, durationTimeout,
          inputAttached, exited

\* the variables of a startGame session beyond those of a round
sessionVars ==
  <<wordsByLength, options, gameInterval, intervals, isWaitingForContinue,
    transitionTimeouts, durationTimeout, inputAttached, exited>>

vars ==
  <<gameState, currentTarget, bagOfChars, difficultyState, call, pc,
    wordsByLength, options, gameInterval, intervals, isWaitingForContinue,
    transitionTimeouts, durationTimeout, inputAttached, exited>>

(***************************************************************************)
(* Bounds of the model.                                                    *)
(***************************************************************************)
MaxTicks == 17
MaxLetters == 2
MaxErrors == 1
MaxWordLength == 5
MaxCompleted == 4
MaxStat == 1

(***************************************************************************)
(* Program constants.                                                      *)
(***************************************************************************)
BOARD_SIZE == 16
CATCH_LINE_POSITION == 13
PERFECT_COMPLETIONS_REQUIRED == 1
STARTING_WORD_LENGTH == 3
SUCCESS_SOUND_CAP == 29

(***************************************************************************)
(* Characters.  toLowerCase maps the capitals to their small letters       *)
(* and leaves every other character alone.                                 *)
(***************************************************************************)
Letters == {"a", "b", "A", "B", "x"}
Chars == Letters \cup {" "}

toLowerCase(c) ==
  CASE c = "A" -> "a"
    [] c = "B" -> "b"
    [] c = "Y" -> "y"
    [] c = "N" -> "n"
    [] OTHER -> c

\* value of an out-of-range string index (JavaScript undefined)
undefinedChar == "undefined"

\* fullTarget[index], index counted from 0
charAt(s, index) ==
  IF index >= 0 /\ index < Len(s) THEN s[index + 1] ELSE undefinedChar

\* s.substring(start)
substring(s, start) ==
  IF start >= Len(s) THEN <<>> ELSE SubSeq(s, start + 1, Len(s))

(***************************************************************************)
(* Board items.  A slot of the board is either undefinedItem (a hole of    *)
(* new Array(BOARD_SIZE)) or a BoardItem {generated, success}.             *)
(***************************************************************************)
undefinedItem == [defined |-> FALSE, generated |-> "", success |-> FALSE]

BoardItem(generated, success) ==
  [defined |-> TRUE, generated |-> generated, success |-> success]

\* board[i] for a JavaScript index i
itemAt(board, i) == board[i + 1]


(***************************************************************************)
(* Game state of one round.                                                *)
(***************************************************************************)
createInitialGameState ==
  [board |-> [i \in 1..BOARD_SIZE |-> undefinedItem],
   typedProgress |-> <<>>,
   errorCount |-> 0,
   missedLetters |-> 0,
   catchCount |-> 0,
   tickCount |-> 0]

\* unshift that adds the item at the tail
unshiftAtTail(board, item) == board \o <<item>>

\* newBoard.unshift(item)
unshift(board, item) == <<item>> \o board

\* pop that removes nothing
popNothing(board) == board

\* newBoard.pop()
pop(board) == SubSeq(board, 1, Len(board) - 1)

\* isMissedLetter without the test of the caught flag
isMissedLetterIgnoringCaught(state, fullTarget) ==
  LET catchLineItem == itemAt(state.board, CATCH_LINE_POSITION)
      nextExpectedChar == charAt(fullTarget, Len(state.typedProgress))
  IN  /\ catchLineItem.defined
      /\ catchLineItem.generated # ""
      /\ nextExpectedChar # undefinedChar
      /\ toLowerCase(catchLineItem.generated) = toLowerCase(nextExpectedChar)

\* the miss test made on the slot that is about to leave the catch line
isMissedLetter(state, fullTarget) ==
  LET catchLineItem == itemAt(state.board, CATCH_LINE_POSITION)
      nextExpectedChar == charAt(fullTarget, Len(state.typedProgress))
  IN  /\ catchLineItem.defined
      /\ catchLineItem.generated # ""
      /\ nextExpectedChar # undefinedChar
      /\ toLowerCase(catchLineItem.generated) = toLowerCase(nextExpectedChar)
      /\ ~catchLineItem.success

\* updateBoardWithNewChar making the miss test on the slot at index 0
updateBoardWithNewCharMissAtSpawn(state, newChar, fullTarget) ==
  LET spawnedItem == itemAt(state.board, 0)
      nextExpectedChar == charAt(fullTarget, Len(state.typedProgress))
      missed == /\ spawnedItem.defined
                /\ nextExpectedChar # undefinedChar
                /\ toLowerCase(spawnedItem.generated) = toLowerCase(nextExpectedChar)
                /\ ~spawnedItem.success
      newBoard == pop(unshift(state.board, BoardItem(newChar, FALSE)))
  IN  [state EXCEPT !.board = newBoard,
                    !.missedLetters = IF missed THEN @ + 1 ELSE @,
                    !.tickCount = state.tickCount + 1]

updateBoardWithNewChar(state, newChar, fullTarget) ==
  LET newMissedLetters ==
        IF isMissedLetter(state, fullTarget)
          THEN state.missedLetters + 1
          ELSE state.missedLetters
      newBoard == pop(unshift(state.board, BoardItem(newChar, FALSE)))
  IN  [state EXCEPT !.board = newBoard,
                    !.missedLetters = newMissedLetters,
                    !.tickCount = state.tickCount + 1]

(***************************************************************************)
(* Keypress resolver.  A sound cue is a name and, for the success ladder,  *)
(* an index; noSound is the null cue.                                      *)
(***************************************************************************)
noSound == [name |-> "null", index |-> -1]
errorSound == [name |-> "error", index |-> -1]
successSound(index) == [name |-> "success", index |-> index]

Min(a, b) == IF a < b THEN a ELSE b
Max(a, b) == IF a > b THEN a ELSE b

\* isSuccess without the test that the letter is the next expected one
isSuccessAnyLetter(pressedChar, letterAtSelection, nextExpectedChar) ==
  toLowerCase(pressedChar) = toLowerCase(letterAtSelection)

\* the condition of the success branch
isSuccess(pressedChar, letterAtSelection, nextExpectedChar) ==
  /\ nextExpectedChar # undefinedChar
  /\ toLowerCase(pressedChar) = toLowerCase(letterAtSelection)
  /\ toLowerCase(letterAtSelection) = toLowerCase(nextExpectedChar)

\* the typed progress after a successful catch
appendCaught(typedProgress, letterAtSelection) ==
  Append(typedProgress, letterAtSelection)

\* isEmptySlot taking a filler blank for no letter
isEmptySlotOrBlank(item) ==
  ~item.defined \/ item.generated = "" \/ item.generated = " "

\* the test for "no letter at catch line"
isEmptySlot(item) == ~item.defined \/ item.generated = ""

\* emptyResult counting the keypress as an error
emptyResultCounted(state) ==
  [newState |-> [state EXCEPT !.errorCount = state.errorCount + 1],
   feedbackType |-> "empty",
   isLevelComplete |-> FALSE,
   shouldPlaySound |-> noSound]

\* the result of a keypress with no letter at the catch line
emptyResult(state) ==
  [newState |-> state,
   feedbackType |-> "empty",
   isLevelComplete |-> FALSE,
   shouldPlaySound |-> noSound]

\* the index of the success sound without the cap
successSoundIndexUncapped(catchCount) == catchCount

\* the index of the success sound, capped at the top of the ladder
successSoundIndex(catchCount) == Min(catchCount, SUCCESS_SOUND_CAP)

\* the result of a successful catch
successResult(state, fullTarget) ==
  LET itemAtCatchLine == itemAt(state.board, CATCH_LINE_POSITION)
      letterAtSelection == itemAtCatchLine.generated
      newTypedProgress == appendCaught(state.typedProgress, letterAtSelection)
      isComplete == newTypedProgress = fullTarget
  IN  [newState |->
         [state EXCEPT
            !.board[CATCH_LINE_POSITION + 1] =
               [itemAtCatchLine EXCEPT !.success = TRUE],
            !.typedProgress = newTypedProgress,
            !.catchCount = state.catchCount + 1],
       feedbackType |-> "success",
       isLevelComplete |-> isComplete,
       shouldPlaySound |-> successSound(successSoundIndex(state.catchCount))]

\* the result of pressing the letter at the catch line when it is not needed
errorResult(state) ==
  [newState |-> [state EXCEPT !.errorCount = state.errorCount + 1],
   feedbackType |-> "error",
   isLevelComplete |-> FALSE,
   shouldPlaySound |-> errorSound]

\* missResult without the count
missResultUncounted(state) ==
  [newState |-> state,
   feedbackType |-> "miss",
   isLevelComplete |-> FALSE,
   shouldPlaySound |-> errorSound]

\* the result of pressing a key other than the letter at the catch line
missResult(state) ==
  [newState |-> [state EXCEPT !.errorCount = state.errorCount + 1],
   feedbackType |-> "miss",
   isLevelComplete |-> FALSE,
   shouldPlaySound |-> errorSound]

processKeypress(pressedChar, state, fullTarget) ==
  LET nextExpectedChar == charAt(fullTarget, Len(state.typedProgress))
      itemAtCatchLine == itemAt(state.board, CATCH_LINE_POSITION)
      letterAtSelection == itemAtCatchLine.generated
  IN  IF isEmptySlot(itemAtCatchLine)
        THEN emptyResult(state)
      ELSE IF isSuccess(pressedChar, letterAtSelection, nextExpectedChar)
        THEN successResult(state, fullTarget)
      ELSE IF toLowerCase(pressedChar) = toLowerCase(letterAtSelection)
        THEN errorResult(state)
      ELSE missResult(state)

(***************************************************************************)
(* The revision of the two core transitions that reads                     *)
(* nextExpectedChar.toLowerCase() without testing nextExpectedChar.  A     *)
(* call either throws a TypeError or returns a value.                      *)
(***************************************************************************)
TypeError == [threw |-> TRUE]

returned(value) == [threw |-> FALSE, value |-> value]

updateBoardWithNewCharUnguarded(state, newChar, fullTarget) ==
  LET poppedItem == itemAt(state.board, Len(state.board) - 1)
      nextExpectedChar == charAt(fullTarget, Len(state.typedProgress))
      missed == /\ poppedItem.defined
                /\ toLowerCase(poppedItem.generated) = toLowerCase(nextExpectedChar)
                /\ ~poppedItem.success
  IN  IF poppedItem.defined /\ nextExpectedChar = undefinedChar
        THEN TypeError
        ELSE returned(
               [state EXCEPT
                  !.board = pop(unshift(state.board, BoardItem(newChar, FALSE))),
                  !.missedLetters = IF missed THEN @ + 1 ELSE @,
                  !.tickCount = @ + 1])

processKeypressUnguarded(pressedChar, state, fullTarget) ==
  LET nextExpectedChar == charAt(fullTarget, Len(state.typedProgress))
      itemAtCatchLine == itemAt(state.board, CATCH_LINE_POSITION)
      letterAtSelection == itemAtCatchLine.generated
  IN  IF isEmptySlot(itemAtCatchLine)
        THEN returned(emptyResult(state))
      ELSE IF toLowerCase(pressedChar) = toLowerCase(letterAtSelection)
        THEN IF nextExpectedChar = undefinedChar
               THEN TypeError
             ELSE IF toLowerCase(letterAtSelection) = toLowerCase(nextExpectedChar)
               THEN returned(successResult(state, fullTarget))
             ELSE returned(errorResult(state))
      ELSE returned(missResult(state))

(***************************************************************************)
(* Character bag generator.                                                *)
(***************************************************************************)
NEXT_WEIGHT == 10
OTHER_WEIGHT == 2
SPACING_DIVISOR == 4

\* new Array(n).fill(c)
fill(n, c) == [i \in 1..n |-> c]

\* s.toLowerCase() of a string
lowerString(s) == [i \in 1..Len(s) |-> toLowerCase(s[i])]

\* the elements of new Set(s) in insertion order
uniqueInOrder(s) ==
  LET firsts == {i \in 1..Len(s) : \A j \in 1..(i - 1) : s[j] # s[i]}
      nth(k) == CHOOSE i \in firsts : Cardinality({j \in firsts : j < i}) = k - 1
  IN  [k \in 1..Cardinality(firsts) |-> s[nth(k)]]

\* the pushes of uniqueRemaining.forEach
RECURSIVE otherLetters(_, _)
otherLetters(unique, nextLetter) ==
  IF unique = <<>> THEN <<>>
  ELSE LET letter == Head(unique)
           rest == otherLetters(Tail(unique), nextLetter)
       IN  IF letter # nextLetter /\ letter # " "
             THEN fill(OTHER_WEIGHT, letter) \o rest
             ELSE rest

\* fillerCount rounding up
fillerCountRoundedUp(selectionLength) ==
  (selectionLength + SPACING_DIVISOR - 1) \div SPACING_DIVISOR

\* Math.floor(selection.length / 4)
fillerCount(selectionLength) == selectionLength \div SPACING_DIVISOR

generateBagOfChars(typedProgress, fullTarget) ==
  LET remaining == substring(fullTarget, Len(typedProgress))
  IN  IF Len(remaining) = 0 THEN <<" ">>
      ELSE LET nextLetter == toLowerCase(remaining[1])
               uniqueRemaining == uniqueInOrder(lowerString(remaining))
               selection == fill(NEXT_WEIGHT, nextLetter)
                              \o otherLetters(uniqueRemaining, nextLetter)
               numberOfSpaces == fillerCount(Len(selection))
           IN  selection \o fill(numberOfSpaces, " ")


(***************************************************************************)
(* Adaptive difficulty controller.                                         *)
(***************************************************************************)
isPerfect(errorCount, missedLetters) == errorCount = 0 /\ missedLetters = 0

calculateStats(errorCount, missedLetters) ==
  [errorCount |-> errorCount,
   missedLetters |-> missedLetters,
   isPerfect |-> isPerfect(errorCount, missedLetters)]

shouldUpgrade(stats) == stats.errorCount = 0 /\ stats.missedLetters = 0

\* shouldDowngrade with either counter positive
shouldDowngradeEither(stats) == stats.errorCount > 0 \/ stats.missedLetters > 0

shouldDowngrade(stats) == stats.errorCount > 0 /\ stats.missedLetters > 0

shouldStay(stats) == ~shouldUpgrade(stats) /\ ~shouldDowngrade(stats)

\* upgradedLength without the ceiling
upgradedLengthUnclamped(currentWordLength, maxWordLength) ==
  currentWordLength + 1

\* the word length after an upgrade
upgradedLength(currentWordLength, maxWordLength) ==
  Min(currentWordLength + 1, maxWordLength)

\* the word length after a downgrade
downgradedLength(currentWordLength, minWordLength) ==
  Max(currentWordLength - 1, minWordLength)

\* calculateNextWordLength keeping the streak after an upgrade
calculateNextWordLengthKeepingStreak(currentWordLength, stats, minWordLength, maxWordLength, consecutivePerfect) ==
  IF shouldUpgrade(stats)
    THEN LET newConsecutivePerfect == consecutivePerfect + 1
         IN  IF newConsecutivePerfect >= PERFECT_COMPLETIONS_REQUIRED
               THEN [newWordLength |->
                       upgradedLength(currentWordLength, maxWordLength),
                     progressionType |-> "upgrade",
                     consecutivePerfect |-> newConsecutivePerfect]
               ELSE [newWordLength |-> currentWordLength,
                     progressionType |-> "stay",
                     consecutivePerfect |-> newConsecutivePerfect]
  ELSE IF shouldDowngrade(stats)
    THEN [newWordLength |->
            downgradedLength(currentWordLength, minWordLength),
          progressionType |-> "downgrade",
          consecutivePerfect |-> 0]
  ELSE [newWordLength |-> currentWordLength,
        progressionType |-> "stay",
        consecutivePerfect |-> 0]

calculateNextWordLength(currentWordLength, stats, minWordLength, maxWordLength, consecutivePerfect) ==
  IF shouldUpgrade(stats)
    THEN LET newConsecutivePerfect == consecutivePerfect + 1
         IN  IF newConsecutivePerfect >= PERFECT_COMPLETIONS_REQUIRED
               THEN [newWordLength |->
                       upgradedLength(currentWordLength, maxWordLength),
                     progressionType |-> "upgrade",
                     consecutivePerfect |-> 0]
               ELSE [newWordLength |-> currentWordLength,
                     progressionType |-> "stay",
                     consecutivePerfect |-> newConsecutivePerfect]
  ELSE IF shouldDowngrade(stats)
    THEN [newWordLength |->
            downgradedLength(currentWordLength, minWordLength),
          progressionType |-> "downgrade",
          consecutivePerfect |-> 0]
  ELSE [newWordLength |-> currentWordLength,
        progressionType |-> "stay",
        consecutivePerfect |-> 0]

createInitialDifficultyState(startingLength, maxLength) ==
  [currentWordLength |-> startingLength,
   minWordLength |-> startingLength,
   maxWordLength |-> maxLength,
   completedWords |-> 0,
   usedWords |-> {},
   consecutivePerfect |-> 0]

\* addUsedWord starting again from an empty set
addUsedWordAlone(usedWords, completedWord) == {completedWord}

\* new Set(state.usedWords) followed by add(completedWord)
addUsedWord(usedWords, completedWord) == usedWords \cup {completedWord}

updateDifficultyState(state, completedWord, stats) ==
  LET progressionResult ==
        calculateNextWordLength(state.currentWordLength, stats,
                                state.minWordLength, state.maxWordLength,
                                state.consecutivePerfect)
      newUsedWords == addUsedWord(state.usedWords, completedWord)
  IN  [newState |->
         [state EXCEPT
            !.currentWordLength = progressionResult.newWordLength,
            !.completedWords = state.completedWords + 1,
            !.usedWords = newUsedWords,
            !.consecutivePerfect = progressionResult.consecutivePerfect],
       progression |->
         [newWordLength |-> progressionResult.newWordLength,
          progressionType |-> progressionResult.progressionType]]


(***************************************************************************)
(* Scoring and feedback.  A score is the exact quotient num / den with      *)
(* den > 0; the program computes it in floating point.                     *)
(***************************************************************************)
getLevelFromWordLength(wordLength) == wordLength - STARTING_WORD_LENGTH + 1

\* getWordLengthFromLevel one length too far
getWordLengthFromLevelOneOff(level) == level + STARTING_WORD_LENGTH

getWordLengthFromLevel(level) == level + STARTING_WORD_LENGTH - 1

PERCENT == 100

quotient(num, den) ==
  IF den > 0 THEN [num |-> num, den |-> den] ELSE [num |-> -num, den |-> -den]

\* a < b for quotients
lessThan(a, b) == a.num * b.den < b.num * a.den

\* clampScore without the ceiling
clampScoreFromBelow(score) ==
  IF lessThan(score, quotient(0, 1)) THEN quotient(0, 1) ELSE score

\* Math.max(0, Math.min(100, score))
clampScore(score) ==
  LET capped == IF lessThan(quotient(PERCENT, 1), score)
                  THEN quotient(PERCENT, 1) ELSE score
  IN  IF lessThan(capped, quotient(0, 1)) THEN quotient(0, 1) ELSE capped

calculateScore(completedLevels, completedWords) ==
  IF completedWords = 0 THEN quotient(0, 1)
  ELSE IF completedLevels < 0 THEN quotient(0, 1)
  ELSE clampScore(quotient(completedLevels * PERCENT, completedWords))

\* the good-accuracy test with the two counters swapped
isGoodAccuracySwapped(stats) == stats.errorCount > 0 /\ stats.missedLetters = 0

isGoodAccuracy(stats) == stats.errorCount = 0 /\ stats.missedLetters > 0

isGoodEfficiency(stats) == stats.errorCount > 0 /\ stats.missedLetters = 0

\* the type of the FeedbackMessage
generateFeedback(stats) ==
  IF stats.isPerfect THEN "perfect"
  ELSE IF isGoodAccuracy(stats) THEN "good-accuracy"
  ELSE IF isGoodEfficiency(stats) THEN "good-efficiency"
  ELSE "keep-practicing"

(***************************************************************************)
(* Word pool.  A level is a record with a target; WordsByLength is a        *)
(* function from the lengths that occur to the words of that length in     *)
(* corpus order.  Math.random() is a multiple of 1 / RandomSteps below 1.   *)
(***************************************************************************)
RandomSteps == 4

Randoms == 0..(RandomSteps - 1)

\* Math.floor(Math.random() * length)
randomIndex(random, length) == (random * length) \div RandomSteps

includes(s, c) == \E i \in 1..Len(s) : s[i] = c

\* isSingleWord letting every level through
isSingleWordAlways(level) == TRUE

isSingleWord(level) == ~includes(level.target, " ")

filterSingleWords(levels) == SelectSeq(levels, isSingleWord)

organizeWordsByLength(levels) ==
  [length \in {Len(levels[i].target) : i \in 1..Len(levels)} |->
     LET hasLength(level) == Len(level.target) = length
         atLength == SelectSeq(levels, hasLength)
     IN  [i \in 1..Len(atLength) |-> atLength[i].target]]

getAvailableLengths(pool) == DOMAIN pool

DEFAULT_MAX_WORD_LENGTH == 3

getMaxWordLength(pool) ==
  LET lengths == getAvailableLengths(pool)
  IN  IF lengths # {}
        THEN CHOOSE m \in lengths : \A n \in lengths : n <= m
        ELSE DEFAULT_MAX_WORD_LENGTH

\* the null of string | null
nullWord == <<"null">>

\* pool[targetLength], the empty list standing for undefined
wordsAt(pool, targetLength) ==
  IF targetLength \in DOMAIN pool
    THEN pool[targetLength]
    ELSE <<>>

\* availableWords without the filter on usedWords
availableWordsUnfiltered(wordsAtLength, usedWords) == wordsAtLength

\* wordsAtLength.filter((word) => !usedWords.has(word))
availableWords(wordsAtLength, usedWords) ==
  LET unused(word) == word \notin usedWords
  IN  SelectSeq(wordsAtLength, unused)

selectWordAtLength(pool, targetLength, usedWords, random) ==
  LET wordsAtLength == wordsAt(pool, targetLength)
      available == availableWords(wordsAtLength, usedWords)
  IN  IF Len(wordsAtLength) = 0
        THEN nullWord
      ELSE IF Len(available) = 0
        THEN wordsAtLength[randomIndex(random, Len(wordsAtLength)) + 1]
      ELSE available[randomIndex(random, Len(available)) + 1]

(***************************************************************************)
(* The revision of the bag generator that adds random letters of the       *)
(* alphabet.  The alphabet is cut down to the letters of the model;        *)
(* randoms is the sequence of the values Math.random() returns.            *)
(***************************************************************************)
NEXT_WEIGHT_VARIANCE == 5
OTHER_WEIGHT_VARIANCE == 3
RANDOM_SHARE_DIVISOR == 5

alphabet == <<"a", "b", "x">>

\* the pushes of uniqueRemaining.forEach, three per letter
RECURSIVE otherLettersVariance(_, _)
otherLettersVariance(unique, nextLetter) ==
  IF unique = <<>> THEN <<>>
  ELSE LET letter == Head(unique)
           rest == otherLettersVariance(Tail(unique), nextLetter)
       IN  IF letter # nextLetter /\ letter # " "
             THEN fill(OTHER_WEIGHT_VARIANCE, letter) \o rest
             ELSE rest

\* Math.floor(selection.length * 0.2)
randomCount(selectionLength) == selectionLength \div RANDOM_SHARE_DIVISOR

\* alphabet[Math.floor(Math.random() * alphabet.length)], once per random
randomLetters(randoms) ==
  [i \in 1..Len(randoms) |-> alphabet[randomIndex(randoms[i], Len(alphabet)) + 1]]

generateBagOfCharsWithVariance(typedProgress, fullTarget, randoms) ==
  LET remaining == substring(fullTarget, Len(typedProgress))
  IN  IF Len(remaining) = 0 THEN <<" ">>
      ELSE LET nextLetter == toLowerCase(remaining[1])
               uniqueRemaining == uniqueInOrder(lowerString(remaining))
               weighted == fill(NEXT_WEIGHT_VARIANCE, nextLetter)
                             \o otherLettersVariance(uniqueRemaining, nextLetter)
               selection == weighted \o randomLetters(randoms)
               numberOfSpaces == fillerCount(Len(selection))
           IN  selection \o fill(numberOfSpaces, " ")

(***************************************************************************)
(* Inputs.                                                                 *)
(***************************************************************************)
\* characters an input source delivers
Keys == {"a", "A", "b", "x", " "}

\* target words of a round
Words == {<<"a", "b">>, <<"A", "b">>, <<"b", "b">>}

noCall == [op |-> "none"]

idleDifficultyState == createInitialDifficultyState(MaxWordLength, MaxWordLength)

\* number of letters (non-blank items) on a board
lettersOn(board) ==
  Cardinality({i \in 1..Len(board) :
                 board[i].defined /\ board[i].generated # " "})

\* the characters of a bag
bagSet(bag) == {bag[i] : i \in 1..Len(bag)}

\* no session: the variables of startGame at rest
nullInterval == 0

defaultOptions ==
  [adaptiveDifficulty |-> TRUE, showCompletionScreens |-> TRUE, duration |-> FALSE]

idleSession ==
  /\ wordsByLength = <<>>
  /\ options = defaultOptions
  /\ gameInterval = nullInterval
  /\ intervals = {}
  /\ isWaitingForContinue = FALSE
  /\ transitionTimeouts = 0
  /\ durationTimeout = FALSE
  /\ inputAttached = FALSE
  /\ exited = FALSE

(***************************************************************************)
(* A round of startGame: initializeWord, then ticks and keypresses until   *)
(* the keypress that completes the word.                                   *)
(***************************************************************************)
initializeWord(selectedWord) ==
  /\ currentTarget = selectedWord
  /\ gameState = createInitialGameState
  /\ bagOfChars = generateBagOfChars(createInitialGameState.typedProgress,
                                     selectedWord)

InitRound ==
  /\ \E selectedWord \in Words : initializeWord(selectedWord)
  /\ difficultyState = idleDifficultyState
  /\ call = noCall
  /\ pc = "round"
  /\ idleSession

\* bagAfterInput keeping the bag of the round start
bagAfterInputStale(result, bag, fullTarget) == bag

\* handleInput: the bag is regenerated after a success
bagAfterInput(result, bag, fullTarget) ==
  IF result.feedbackType = "success"
    THEN generateBagOfChars(result.newState.typedProgress, fullTarget)
    ELSE bag

gameTick ==
  /\ pc = "round"
  /\ gameState.tickCount < MaxTicks
  /\ \E generatedChar \in bagSet(bagOfChars) :
       /\ generatedChar = " " \/ lettersOn(gameState.board) < MaxLetters
       /\ LET newState ==
                updateBoardWithNewChar(gameState, generatedChar, currentTarget)
          IN  gameState' = newState
  /\ UNCHANGED <<currentTarget, bagOfChars, difficultyState, call, pc>>
  /\ UNCHANGED sessionVars

handleInput ==
  /\ pc = "round"
  /\ \E ch \in Keys :
       LET result == processKeypress(ch, gameState, currentTarget)
       IN  /\ result.newState.errorCount <= MaxErrors
           /\ gameState' = result.newState
           /\ bagOfChars' = bagAfterInput(result, bagOfChars, currentTarget)
           /\ pc' = IF result.isLevelComplete THEN "complete" ELSE "round"
  /\ UNCHANGED <<currentTarget, difficultyState, call>>
  /\ UNCHANGED sessionVars

NextRound == gameTick \/ handleInput

SpecRound == InitRound /\ [][NextRound]_vars


(***************************************************************************)
(* The two core transitions as functions: one call of processKeypress or   *)
(* of updateBoardWithNewChar on a game state and target drawn from sets    *)
(* that cover every branch (empty, caught and uncaught slots, either       *)
(* letter case, a finished word, counters at the sound ladder's cap).      *)
(***************************************************************************)
CoreSlots ==
  {undefinedItem}
    \cup {BoardItem(c, b) : c \in {"a", "A", "b", " ", ""}, b \in BOOLEAN}

\* the slots at indexes 0, 14 and 15 of the boards drawn
CoreNeighbours ==
  {<<undefinedItem, undefinedItem, undefinedItem>>,
   <<BoardItem("a", FALSE), BoardItem("b", TRUE), BoardItem(" ", FALSE)>>,
   <<BoardItem(" ", FALSE), undefinedItem, BoardItem("A", TRUE)>>}

coreBoard(catchLineItem, neighbours) ==
  [i \in 1..BOARD_SIZE |->
     CASE i = CATCH_LINE_POSITION + 1 -> catchLineItem
       [] i = 1 -> neighbours[1]
       [] i = BOARD_SIZE - 1 -> neighbours[2]
       [] i = BOARD_SIZE -> neighbours[3]
       [] OTHER -> undefinedItem]

CoreTargets == {<<"a", "b">>, <<"A", "b">>, <<"b">>}

CoreProgress == {<<>>, <<"a">>, <<"A">>, <<"b">>, <<"a", "b">>}

CoreStates ==
  {[board |-> coreBoard(item, neighbours),
    typedProgress |-> typed,
    errorCount |-> e,
    missedLetters |-> m,
    catchCount |-> c,
    tickCount |-> t] :
     item \in CoreSlots, neighbours \in CoreNeighbours, typed \in CoreProgress,
     e \in {0, MaxErrors}, m \in {0, MaxStat},
     c \in {0, SUCCESS_SOUND_CAP, SUCCESS_SOUND_CAP + 1}, t \in {0, MaxTicks}}

InitCore ==
  /\ gameState \in CoreStates
  /\ currentTarget \in CoreTargets
  /\ bagOfChars = <<>>
  /\ difficultyState = idleDifficultyState
  /\ call = noCall
  /\ pc = "core"
  /\ idleSession

callProcessKeypress ==
  /\ pc = "core"
  /\ call = noCall
  /\ \E pressedChar \in Keys :
       LET result == processKeypress(pressedChar, gameState, currentTarget)
       IN  /\ call' = [op |-> "processKeypress",
                       pressedChar |-> pressedChar,
                       state |-> gameState,
                       fullTarget |-> currentTarget,
                       result |-> result]
           /\ gameState' = result.newState
  /\ UNCHANGED <<currentTarget, bagOfChars, difficultyState, pc>>
  /\ UNCHANGED sessionVars

callUpdateBoardWithNewChar ==
  /\ pc = "core"
  /\ call = noCall
  /\ \E newChar \in Chars :
       LET newState == updateBoardWithNewChar(gameState, newChar, currentTarget)
       IN  /\ call' = [op |-> "updateBoardWithNewChar",
                       newChar |-> newChar,
                       state |-> gameState,
                       fullTarget |-> currentTarget,
                       result |-> newState]
           /\ gameState' = newState
  /\ UNCHANGED <<currentTarget, bagOfChars, difficultyState, pc>>
  /\ UNCHANGED sessionVars

callProcessKeypressUnguarded ==
  /\ pc = "core"
  /\ call = noCall
  /\ \E pressedChar \in Keys :
       LET outcome == processKeypressUnguarded(pressedChar, gameState, currentTarget)
       IN  /\ call' = [op |-> "processKeypressUnguarded",
                       pressedChar |-> pressedChar,
                       state |-> gameState,
                       fullTarget |-> currentTarget,
                       outcome |-> outcome]
           /\ gameState' = IF outcome.threw THEN gameState
                           ELSE outcome.value.newState
  /\ UNCHANGED <<currentTarget, bagOfChars, difficultyState, pc>>
  /\ UNCHANGED sessionVars

callUpdateBoardWithNewCharUnguarded ==
  /\ pc = "core"
  /\ call = noCall
  /\ \E newChar \in Chars :
       LET outcome == updateBoardWithNewCharUnguarded(gameState, newChar, currentTarget)
       IN  /\ call' = [op |-> "updateBoardWithNewCharUnguarded",
                       newChar |-> newChar,
                       state |-> gameState,
                       fullTarget |-> currentTarget,
                       outcome |-> outcome]
           /\ gameState' = IF outcome.threw THEN gameState ELSE outcome.value
  /\ UNCHANGED <<currentTarget, bagOfChars, difficultyState, pc>>
  /\ UNCHANGED sessionVars

NextCore ==
  \/ callProcessKeypress
  \/ callUpdateBoardWithNewChar
  \/ callProcessKeypressUnguarded
  \/ callUpdateBoardWithNewCharUnguarded

SpecCore == InitCore /\ [][NextCore]_vars

(***************************************************************************)
(* The difficulty controller over a session: any round outcome, any word.  *)
(***************************************************************************)
InitDifficulty ==
  /\ \E startingLength \in 1..MaxWordLength :
       \E maxLength \in startingLength..MaxWordLength :
         difficultyState = createInitialDifficultyState(startingLength, maxLength)
  /\ gameState = createInitialGameState
  /\ currentTarget = <<>>
  /\ bagOfChars = <<>>
  /\ call = noCall
  /\ pc = "difficulty"
  /\ idleSession

roundCompleted ==
  /\ pc = "difficulty"
  /\ difficultyState.completedWords < MaxCompleted
  /\ \E completedWord \in Words, errorCount \in 0..MaxStat,
        missedLetters \in 0..MaxStat :
       LET stats == calculateStats(errorCount, missedLetters)
           result == updateDifficultyState(difficultyState, completedWord, stats)
       IN  /\ difficultyState' = result.newState
           /\ call' = [op |-> "updateDifficultyState",
                       state |-> difficultyState,
                       completedWord |-> completedWord,
                       stats |-> stats,
                       feedback |-> generateFeedback(stats),
                       result |-> result]
  /\ UNCHANGED <<gameState, currentTarget, bagOfChars, pc>>
  /\ UNCHANGED sessionVars

NextDifficulty == roundCompleted

SpecDifficulty == InitDifficulty /\ [][NextDifficulty]_vars


(***************************************************************************)
(* Word selection as a function: one call of selectWordAtLength on a pool,  *)
(* a length, a set of used words and a random number.                      *)
(***************************************************************************)
Level(target) == [target |-> target]

CorpusFull ==
  <<Level(<<"a", "a", "a">>), Level(<<"a", " ", "b">>),
    Level(<<"a", "a", "a", "a">>), Level(<<"b", "b", "b">>)>>

CorpusGap ==
  <<Level(<<"a", "a", "a">>), Level(<<"a", "a", "a", "a", "a">>)>>

CorpusNoStart == <<Level(<<"a", "a", "a", "a">>)>>

Corpora == {CorpusFull, CorpusGap, CorpusNoStart}

PoolWords ==
  {<<"a", "a", "a">>, <<"b", "b", "b">>, <<"a", "a", "a", "a">>,
   <<"a", "a", "a", "a", "a">>}

Pools ==
  {organizeWordsByLength(filterSingleWords(levels)) : levels \in Corpora}
    \cup {[length \in {3} |-> <<>>]}

InitPool ==
  /\ gameState = createInitialGameState
  /\ currentTarget = <<>>
  /\ bagOfChars = <<>>
  /\ difficultyState = idleDifficultyState
  /\ call = noCall
  /\ pc = "pool"
  /\ idleSession

callSelectWordAtLength ==
  /\ pc = "pool"
  /\ call = noCall
  /\ \E pool \in Pools, targetLength \in 1..MaxWordLength,
        usedWords \in SUBSET PoolWords, random \in Randoms :
       call' = [op |-> "selectWordAtLength",
                wordsByLength |-> pool,
                targetLength |-> targetLength,
                usedWords |-> usedWords,
                result |-> selectWordAtLength(pool, targetLength,
                                              usedWords, random)]
  /\ UNCHANGED <<gameState, currentTarget, bagOfChars, difficultyState, pc>>
  /\ UNCHANGED sessionVars

MaxCorpus == 3

CorpusTargets == PoolWords \cup {<<"a", " ", "b">>, <<"b", "b", " ">>}

\* every corpus of at most MaxCorpus levels, repeated entries included
SmallCorpora ==
  UNION {[1..n -> {Level(target) : target \in CorpusTargets}] : n \in 0..MaxCorpus}

callOrganizeWordsByLength ==
  /\ pc = "pool"
  /\ call = noCall
  /\ \E levels \in SmallCorpora :
       call' = [op |-> "organizeWordsByLength",
                levels |-> levels,
                result |-> organizeWordsByLength(filterSingleWords(levels))]
  /\ UNCHANGED <<gameState, currentTarget, bagOfChars, difficultyState, pc>>
  /\ UNCHANGED sessionVars

NextPool ==
  \/ callSelectWordAtLength
  \/ callOrganizeWordsByLength

SpecPool == InitPool /\ [][NextPool]_vars


(***************************************************************************)
(* The bag generator as a function: one call on a progress and a target,   *)
(* for either revision of the generator.                                   *)
(***************************************************************************)
BagTargets ==
  {<<"a", "b">>, <<"A", "b">>, <<"a", "B", "a">>, <<"b", "b", "a">>,
   <<"a", " ", "b">>, <<"x">>}

MaxProgress == 3

BagProgress == UNION {[1..n -> {"a", "b"}] : n \in 0..MaxProgress}

\* the characters the bag draws from: the lowercased rest of the target
remainingOf(typedProgress, fullTarget) ==
  lowerString(substring(fullTarget, Len(typedProgress)))

InitBag ==
  /\ gameState = createInitialGameState
  /\ currentTarget = <<>>
  /\ bagOfChars = <<>>
  /\ difficultyState = idleDifficultyState
  /\ call = noCall
  /\ pc = "bag"
  /\ idleSession

callGenerateBagOfChars ==
  /\ pc = "bag"
  /\ call = noCall
  /\ \E typedProgress \in BagProgress, fullTarget \in BagTargets :
       call' = [op |-> "generateBagOfChars",
                typedProgress |-> typedProgress,
                fullTarget |-> fullTarget,
                result |-> generateBagOfChars(typedProgress, fullTarget)]
  /\ UNCHANGED <<gameState, currentTarget, bagOfChars, difficultyState, pc>>
  /\ UNCHANGED sessionVars

callGenerateBagOfCharsWithVariance ==
  /\ pc = "bag"
  /\ call = noCall
  /\ \E typedProgress \in BagProgress, fullTarget \in BagTargets :
       LET remaining == substring(fullTarget, Len(typedProgress))
           unique == uniqueInOrder(lowerString(remaining))
           weighted ==
             IF Len(remaining) = 0 THEN 0
             ELSE NEXT_WEIGHT_VARIANCE
                    + Len(otherLettersVariance(unique, toLowerCase(remaining[1])))
       IN  \E randoms \in [1..randomCount(weighted) -> Randoms] :
             call' = [op |-> "generateBagOfCharsWithVariance",
                      typedProgress |-> typedProgress,
                      fullTarget |-> fullTarget,
                      result |-> generateBagOfCharsWithVariance(
                                   typedProgress, fullTarget, randoms)]
  /\ UNCHANGED <<gameState, currentTarget, bagOfChars, difficultyState, pc>>
  /\ UNCHANGED sessionVars

NextBag == callGenerateBagOfChars \/ callGenerateBagOfCharsWithVariance

SpecBag == InitBag /\ [][NextBag]_vars


(***************************************************************************)
(* A startGame session: rounds one after the other, the completion screen  *)
(* or the one-second transition between them, the tick interval, the       *)
(* optional duration timer and stop().  The state after startGame has      *)
(* returned is the initial state.  Ticks of a session spawn letters only;  *)
(* rounds with blanks on the board are those of SpecRound.                 *)
(***************************************************************************)
MaxRounds == 2

MaxStops == 2

SessionKeys == {"a", "b", "y", "n", "Y", "N"}

SessionSpawn == Letters

\* currentTarget = 'error'
errorTarget == <<"e", "r", "r", "o", "r">>

\* the id setInterval returns: one that no live interval has
newInterval(live) == CHOOSE id \in 1..(Cardinality(live) + 1) : id \notin live

\* inputSource.cleanup()
cleanupResuming(attached) == ~attached

\* inputSource.cleanup()
cleanup(attached) == FALSE

\* the call recorded for stop(): how many calls in a row
stopCall ==
  [op |-> "stop",
   count |-> IF call.op = "stop" THEN Min(call.count + 1, MaxStops) ELSE 1]

\* initializeWord() without gameState = createInitialGameState()
initializeWordKeeping(selectedWord) ==
  IF selectedWord = nullWord
    THEN /\ currentTarget' = errorTarget
         /\ UNCHANGED <<gameState, bagOfChars, isWaitingForContinue>>
    ELSE /\ currentTarget' = selectedWord
         /\ bagOfChars' = generateBagOfChars(createInitialGameState.typedProgress,
                                             selectedWord)
         /\ isWaitingForContinue' = FALSE
         /\ UNCHANGED gameState

\* initializeWord() as a step
initializeWordStep(selectedWord) ==
  IF selectedWord = nullWord
    THEN /\ currentTarget' = errorTarget
         /\ UNCHANGED <<gameState, bagOfChars, isWaitingForContinue>>
    ELSE /\ currentTarget' = selectedWord
         /\ gameState' = createInitialGameState
         /\ bagOfChars' = generateBagOfChars(createInitialGameState.typedProgress,
                                             selectedWord)
         /\ isWaitingForContinue' = FALSE

\* selectWordAtLength(wordsByLength, currentWordLength, usedWords)
selectedWords ==
  {selectWordAtLength(wordsByLength, difficultyState.currentWordLength,
                      difficultyState.usedWords, random) : random \in Randoms}

\* startGameLoop() without the clearInterval of the running interval
startGameLoopKeeping(live, current) ==
  LET id == newInterval(live)
  IN  /\ gameInterval' = id
      /\ intervals' = live \cup {id}

\* startGameLoop() as a step, from the intervals live before it
startGameLoopStep(live, current) ==
  LET kept == live \ {current}
      id == newInterval(kept)
  IN  /\ gameInterval' = id
      /\ intervals' = kept \cup {id}

\* stop() as a step
stopStep ==
  /\ gameInterval' = nullInterval
  /\ intervals' = intervals \ {gameInterval}
  /\ inputAttached' = cleanup(inputAttached)

InitSession ==
  /\ pc = "session"
  /\ call = noCall
  /\ \E levels \in Corpora :
       wordsByLength = organizeWordsByLength(filterSingleWords(levels))
  /\ \E adaptiveDifficulty \in BOOLEAN, showCompletionScreens \in BOOLEAN,
        duration \in BOOLEAN :
       options = [adaptiveDifficulty |-> adaptiveDifficulty,
                  showCompletionScreens |-> showCompletionScreens,
                  duration |-> duration]
  /\ difficultyState =
       IF options.adaptiveDifficulty
         THEN createInitialDifficultyState(STARTING_WORD_LENGTH,
                                           getMaxWordLength(wordsByLength))
         ELSE createInitialDifficultyState(STARTING_WORD_LENGTH,
                                           STARTING_WORD_LENGTH)
  /\ \E selectedWord \in selectedWords :
       IF selectedWord = nullWord
         THEN /\ currentTarget = errorTarget
              /\ gameState = createInitialGameState
              /\ bagOfChars = <<>>
         ELSE initializeWord(selectedWord)
  /\ isWaitingForContinue = FALSE
  /\ gameInterval = newInterval({})
  /\ intervals = {gameInterval}
  /\ inputAttached = TRUE
  /\ transitionTimeouts = 0
  /\ durationTimeout = options.duration
  /\ exited = FALSE

\* the interval fires gameTick
sessionGameTick ==
  /\ pc = "session"
  /\ ~exited
  /\ intervals # {}
  /\ gameState.tickCount < MaxTicks
  /\ IF isWaitingForContinue \/ Len(bagOfChars) = 0
       THEN UNCHANGED <<gameState, call>>
       ELSE /\ \E generatedChar \in bagSet(bagOfChars) \cap SessionSpawn :
                 gameState' = updateBoardWithNewChar(gameState, generatedChar,
                                                     currentTarget)
            /\ call' = noCall
  /\ UNCHANGED <<currentTarget, bagOfChars, difficultyState, pc>>
  /\ UNCHANGED sessionVars

\* handleInput(ch) on the completion screen: 'y' starts the next round
continueSession ==
  /\ \E selectedWord \in selectedWords : initializeWordStep(selectedWord)
  /\ startGameLoopStep(intervals, gameInterval)
  /\ call' = noCall
  /\ UNCHANGED <<difficultyState, pc, wordsByLength, options,
                 transitionTimeouts, durationTimeout, inputAttached, exited>>

\* handleInput(ch) on the completion screen: 'n' stops and exits
quitSession ==
  /\ stopStep
  /\ exited' = TRUE
  /\ call' = stopCall
  /\ UNCHANGED <<gameState, currentTarget, bagOfChars, difficultyState, pc,
                 wordsByLength, options, isWaitingForContinue,
                 transitionTimeouts, durationTimeout>>

\* the difficulty state after a completed round
difficultyAfterRound(state, completedWord, finalState) ==
  IF options.showCompletionScreens
    THEN updateDifficultyState(
           state, completedWord,
           calculateStats(finalState.errorCount, finalState.missedLetters)).newState
  ELSE IF ~options.adaptiveDifficulty
    THEN [state EXCEPT !.completedWords = @ + 1]
  ELSE state

\* handleInput(ch) during a round
playKey(ch) ==
  LET result == processKeypress(ch, gameState, currentTarget)
  IN  /\ result.newState.errorCount <= MaxErrors
      /\ gameState' = result.newState
      /\ bagOfChars' = bagAfterInput(result, bagOfChars, currentTarget)
      /\ call' = noCall
      /\ IF result.isLevelComplete
           THEN /\ difficultyState.completedWords < MaxRounds
                /\ gameInterval' = nullInterval
                /\ intervals' = intervals \ {gameInterval}
                /\ difficultyState' =
                     difficultyAfterRound(difficultyState, currentTarget,
                                          result.newState)
                /\ isWaitingForContinue' = options.showCompletionScreens
                /\ transitionTimeouts' =
                     IF options.showCompletionScreens
                       THEN transitionTimeouts
                       ELSE transitionTimeouts + 1
           ELSE UNCHANGED <<gameInterval, intervals, difficultyState,
                            isWaitingForContinue, transitionTimeouts>>
      /\ UNCHANGED <<currentTarget, pc, wordsByLength, options,
                     durationTimeout, inputAttached, exited>>

sessionHandleInput ==
  /\ pc = "session"
  /\ ~exited
  /\ inputAttached
  /\ \E ch \in SessionKeys :
       IF isWaitingForContinue
         THEN IF toLowerCase(ch) = "y" THEN continueSession
              ELSE IF toLowerCase(ch) = "n" THEN quitSession
              ELSE UNCHANGED vars
         ELSE playKey(ch)

\* the one-second timeout after a round without completion screen
transitionTimeout ==
  /\ pc = "session"
  /\ ~exited
  /\ transitionTimeouts > 0
  /\ transitionTimeouts' = transitionTimeouts - 1
  /\ \E selectedWord \in selectedWords : initializeWordStep(selectedWord)
  /\ startGameLoopStep(intervals, gameInterval)
  /\ call' = noCall
  /\ UNCHANGED <<difficultyState, pc, wordsByLength, options,
                 durationTimeout, inputAttached, exited>>

\* the duration timeout calls stop()
durationElapsed ==
  /\ pc = "session"
  /\ ~exited
  /\ durationTimeout
  /\ durationTimeout' = FALSE
  /\ stopStep
  /\ call' = stopCall
  /\ UNCHANGED <<gameState, currentTarget, bagOfChars, difficultyState, pc,
                 wordsByLength, options, isWaitingForContinue,
                 transitionTimeouts, exited>>

\* the holder of the GameController calls stop()
stop ==
  /\ pc = "session"
  /\ ~exited
  /\ call.op = "stop" => call.count < MaxStops
  /\ stopStep
  /\ call' = stopCall
  /\ UNCHANGED <<gameState, currentTarget, bagOfChars, difficultyState, pc,
                 wordsByLength, options, isWaitingForContinue,
                 transitionTimeouts, durationTimeout, exited>>

NextSession ==
  \/ sessionGameTick
  \/ sessionHandleInput
  \/ transitionTimeout
  \/ durationElapsed
  \/ stop

SpecSession == InitSession /\ [][NextSession]_vars


\* the interval and the timeouts fire, and a player on the completion
\* screen answers 'y'
continueKey ==
  /\ pc = "session"
  /\ ~exited
  /\ inputAttached
  /\ isWaitingForContinue
  /\ continueSession

SpecSessionFair ==
  /\ SpecSession
  /\ WF_vars(sessionGameTick)
  /\ WF_vars(transitionTimeout)
  /\ WF_vars(durationElapsed)
  /\ WF_vars(continueKey)


(***************************************************************************)
(* Scoring and feedback as functions: one call on drawn arguments.         *)
(***************************************************************************)
MaxScoreLevel == 10

MaxScoreWords == 12

ScoreLevels == -2..MaxScoreLevel

ScoreWords == -2..MaxScoreWords

InitScoring ==
  /\ gameState = createInitialGameState
  /\ currentTarget = <<>>
  /\ bagOfChars = <<>>
  /\ difficultyState = idleDifficultyState
  /\ call = noCall
  /\ pc = "scoring"
  /\ idleSession

callCalculateScore ==
  /\ pc = "scoring"
  /\ call = noCall
  /\ \E completedLevels \in ScoreLevels, completedWords \in ScoreWords :
       call' = [op |-> "calculateScore",
                completedLevels |-> completedLevels,
                completedWords |-> completedWords,
                result |-> calculateScore(completedLevels, completedWords)]
  /\ UNCHANGED <<gameState, currentTarget, bagOfChars, difficultyState, pc>>
  /\ UNCHANGED sessionVars

\* a word length to its level and back, and a level to its length and back
callLevelConversions ==
  /\ pc = "scoring"
  /\ call = noCall
  /\ \E n \in ScoreLevels :
       call' = [op |-> "levelConversions",
                n |-> n,
                level |-> getLevelFromWordLength(n),
                lengthOfLevel |-> getWordLengthFromLevel(getLevelFromWordLength(n)),
                wordLength |-> getWordLengthFromLevel(n),
                levelOfLength |-> getLevelFromWordLength(getWordLengthFromLevel(n))]
  /\ UNCHANGED <<gameState, currentTarget, bagOfChars, difficultyState, pc>>
  /\ UNCHANGED sessionVars

callGenerateFeedback ==
  /\ pc = "scoring"
  /\ call = noCall
  /\ \E errorCount \in 0..MaxScoreLevel, missedLetters \in 0..MaxScoreLevel :
       LET stats == calculateStats(errorCount, missedLetters)
       IN  call' = [op |-> "generateFeedback",
                    stats |-> stats,
                    result |-> generateFeedback(stats)]
  /\ UNCHANGED <<gameState, currentTarget, bagOfChars, difficultyState, pc>>
  /\ UNCHANGED sessionVars

NextScoring ==
  \/ callCalculateScore
  \/ callLevelConversions
  \/ callGenerateFeedback

SpecScoring == InitScoring /\ [][NextScoring]_vars


(***************************************************************************)
(* Properties.                                                             *)
(***************************************************************************)
equalsIgnoreCase(a, b) == toLowerCase(a) = toLowerCase(b)

\* a character occupies the slot
occupied(item) == item.defined /\ item.generated # ""

isPrefix(s, t) == Len(s) <= Len(t) /\ SubSeq(t, 1, Len(s)) = s

keypressCalled == call.op = "processKeypress"

tickCalled == call.op = "updateBoardWithNewChar"

FeedbackTypes == {"success", "error", "miss", "empty"}

\* C1: every keypress is classified by the three-tier rule: empty iff no
\* character occupies the catch-line slot; otherwise success iff the pressed
\* key matches the slot's character and the slot's character is the next
\* expected target character (both ignoring case); otherwise error iff the
\* pressed key matches the slot's character; otherwise miss.
C1_ThreeTierRule ==
  keypressCalled =>
    LET slot == itemAt(call.state.board, CATCH_LINE_POSITION)
        nextExpected == charAt(call.fullTarget, Len(call.state.typedProgress))
        pressedMatches == equalsIgnoreCase(call.pressedChar, slot.generated)
        slotIsNext == /\ nextExpected # undefinedChar
                      /\ equalsIgnoreCase(slot.generated, nextExpected)
        kind == call.result.feedbackType
    IN  /\ kind \in FeedbackTypes
        /\ (kind = "empty") <=> ~occupied(slot)
        /\ occupied(slot) =>
             ((kind = "success") <=> (pressedMatches /\ slotIsNext))
        /\ (occupied(slot) /\ kind # "success") =>
             ((kind = "error") <=> pressedMatches)
        /\ (occupied(slot) /\ kind \notin {"success", "error"}) => kind = "miss"

\* the pressed key matches a slot that holds a letter needed later, not next
C1_Witness ==
  /\ keypressCalled
  /\ call.result.feedbackType = "error"
  /\ call.state.typedProgress = <<>>
  /\ call.fullTarget = <<"a", "b">>
  /\ itemAt(call.state.board, CATCH_LINE_POSITION).generated = "b"

\* C2: in every state of a round and for every key, processKeypress never
\* shrinks typedProgress; on success the new typedProgress is the old one
\* extended by the target's next character target[len(old)]; on every other
\* result typedProgress is unchanged.
C2_ProgressExtendsByTargetChar ==
  \A ch \in Keys :
    LET result == processKeypress(ch, gameState, currentTarget)
        old == gameState.typedProgress
        new == result.newState.typedProgress
    IN  /\ Len(new) >= Len(old)
        /\ result.feedbackType = "success" =>
             new = Append(old, charAt(currentTarget, Len(old)))
        /\ result.feedbackType # "success" => new = old

\* C3: in every state of a round typedProgress is a prefix of the target.
C3_ProgressIsPrefix == isPrefix(gameState.typedProgress, currentTarget)

\* C4: a keypress reports isLevelComplete exactly when it is a success whose
\* new typedProgress equals the target, and the success that catches the
\* target's last character reports isLevelComplete.
C4_LastCatchCompletes ==
  /\ pc = "complete" <=> gameState.typedProgress = currentTarget
  /\ \A ch \in Keys :
       LET result == processKeypress(ch, gameState, currentTarget)
       IN  /\ result.isLevelComplete <=>
                (/\ result.feedbackType = "success"
                 /\ result.newState.typedProgress = currentTarget)
           /\ (/\ result.feedbackType = "success"
               /\ Len(result.newState.typedProgress) = Len(currentTarget))
                => result.isLevelComplete


\* C5: when no character occupies the catch-line slot, processKeypress
\* returns the input state unchanged, feedback empty, isLevelComplete false
\* and no sound cue.
C5_EmptyLeavesStateAlone ==
  (keypressCalled /\ ~occupied(itemAt(call.state.board, CATCH_LINE_POSITION)))
    => /\ call.result.newState = call.state
       /\ gameState = call.state
       /\ call.result.feedbackType = "empty"
       /\ call.result.isLevelComplete = FALSE
       /\ call.result.shouldPlaySound = noSound

\* a key pressed on a state with counters set and an empty catch line
C5_Witness ==
  /\ keypressCalled
  /\ ~itemAt(call.state.board, CATCH_LINE_POSITION).defined
  /\ call.state.errorCount > 0
  /\ call.result.feedbackType = "empty"

\* C6: an error or miss keypress increments errorCount by exactly 1, plays
\* the error cue and leaves board, typedProgress, missedLetters, catchCount
\* and tickCount unchanged; a success keypress leaves errorCount,
\* missedLetters and tickCount unchanged and changes no board slot other
\* than the catch-line slot.
C6_KeypressFrame ==
  keypressCalled =>
    LET old == call.state
        new == call.result.newState
        kind == call.result.feedbackType
    IN  /\ kind \in {"error", "miss"} =>
             /\ new.errorCount = old.errorCount + 1
             /\ call.result.shouldPlaySound = errorSound
             /\ new.board = old.board
             /\ new.typedProgress = old.typedProgress
             /\ new.missedLetters = old.missedLetters
             /\ new.catchCount = old.catchCount
             /\ new.tickCount = old.tickCount
        /\ kind = "success" =>
             /\ new.errorCount = old.errorCount
             /\ new.missedLetters = old.missedLetters
             /\ new.tickCount = old.tickCount
             /\ Len(new.board) = Len(old.board)
             /\ \A i \in 0..(BOARD_SIZE - 1) :
                  i # CATCH_LINE_POSITION =>
                    itemAt(new.board, i) = itemAt(old.board, i)

\* a miss on a board with other occupied slots
C6_Witness ==
  /\ keypressCalled
  /\ call.result.feedbackType = "miss"
  /\ itemAt(call.state.board, 0).defined
  /\ gameState.errorCount = call.state.errorCount + 1

\* C7: the board has exactly BOARD_SIZE slots in every state of a round.
C7_BoardLength == Len(gameState.board) = BOARD_SIZE

\* ticks have filled the board past the catch line and a key has caught
C7_Witness ==
  /\ gameState.tickCount > CATCH_LINE_POSITION + 1
  /\ gameState.catchCount > 0
  /\ Len(gameState.board) = BOARD_SIZE

\* C8: updateBoardWithNewChar increments missedLetters by exactly 1 iff,
\* before the shift, the catch-line slot is occupied, its character equals
\* target[len(typedProgress)] ignoring case, and it is not marked caught;
\* otherwise missedLetters is unchanged.
C8_MissIffNeededUncaught ==
  tickCalled =>
    LET slot == itemAt(call.state.board, CATCH_LINE_POSITION)
        nextExpected == charAt(call.fullTarget, Len(call.state.typedProgress))
        missed == /\ occupied(slot)
                  /\ nextExpected # undefinedChar
                  /\ equalsIgnoreCase(slot.generated, nextExpected)
                  /\ ~slot.success
    IN  call.result.missedLetters =
          call.state.missedLetters + (IF missed THEN 1 ELSE 0)

\* the needed letter leaves the catch line uncaught
C8_Witness ==
  /\ tickCalled
  /\ ~itemAt(call.state.board, CATCH_LINE_POSITION).success
  /\ gameState.missedLetters = call.state.missedLetters + 1

\* C9: updateBoardWithNewChar puts {spawnedChar, caught: false} at index 0,
\* moves the slot at index i to index i + 1 for 0 <= i <= 14, drops the
\* slot at index 15, increments tickCount by exactly 1 and leaves
\* typedProgress, errorCount and catchCount unchanged.
C9_TickShiftsBoard ==
  tickCalled =>
    LET old == call.state
        new == call.result
    IN  /\ Len(new.board) = Len(old.board)
        /\ itemAt(new.board, 0) = BoardItem(call.newChar, FALSE)
        /\ \A i \in 0..(BOARD_SIZE - 2) :
             itemAt(new.board, i + 1) = itemAt(old.board, i)
        /\ new.tickCount = old.tickCount + 1
        /\ new.typedProgress = old.typedProgress
        /\ new.errorCount = old.errorCount
        /\ new.catchCount = old.catchCount

\* a tick on a board whose head, catch-line and tail slots are occupied
C9_Witness ==
  /\ tickCalled
  /\ itemAt(call.state.board, 0).defined
  /\ itemAt(call.state.board, CATCH_LINE_POSITION).success
  /\ itemAt(call.state.board, BOARD_SIZE - 1).defined
  /\ itemAt(gameState.board, 1) = itemAt(call.state.board, 0)

\* C10: after any sequence of updateDifficultyState calls from
\* createInitialDifficultyState(start, max) with start <= max,
\* minWordLength <= currentWordLength <= maxWordLength, and minWordLength
\* and maxWordLength never change.
C10_WordLengthWithinBounds ==
  /\ difficultyState.minWordLength <= difficultyState.currentWordLength
  /\ difficultyState.currentWordLength <= difficultyState.maxWordLength
  /\ call.op = "updateDifficultyState" =>
       /\ difficultyState.minWordLength = call.state.minWordLength
       /\ difficultyState.maxWordLength = call.state.maxWordLength

\* a perfect round at the ceiling after the length had moved
C10_Witness ==
  /\ call.op = "updateDifficultyState"
  /\ call.state.minWordLength < call.state.maxWordLength
  /\ call.state.currentWordLength = call.state.maxWordLength
  /\ shouldUpgrade(call.stats)
  /\ difficultyState.completedWords > 2

\* C11: calculateNextWordLength follows the three-way rule.  A perfect round
\* (no error, no missed letter) adds 1 to the streak and, when the streak
\* reaches PERFECT_COMPLETIONS_REQUIRED, gives min(current + 1, max) with
\* type 'upgrade' and streak 0, otherwise keeps the length with type 'stay'
\* and the incremented streak; a round with errors and missed letters gives
\* max(current - 1, min) with type 'downgrade' and streak 0; a round with
\* exactly one of the two positive keeps the length with type 'stay' and
\* streak 0.
C11_ThreeWayRule ==
  call.op = "updateDifficultyState" =>
    LET current == call.state.currentWordLength
        lo == call.state.minWordLength
        hi == call.state.maxWordLength
        streak == call.state.consecutivePerfect
        errors == call.stats.errorCount
        missed == call.stats.missedLetters
        r == calculateNextWordLength(current, call.stats, lo, hi, streak)
    IN  /\ (errors = 0 /\ missed = 0 /\ streak + 1 >= PERFECT_COMPLETIONS_REQUIRED) =>
              /\ r.newWordLength = (IF current + 1 < hi THEN current + 1 ELSE hi)
              /\ r.progressionType = "upgrade"
              /\ r.consecutivePerfect = 0
        /\ (errors = 0 /\ missed = 0 /\ streak + 1 < PERFECT_COMPLETIONS_REQUIRED) =>
              /\ r.newWordLength = current
              /\ r.progressionType = "stay"
              /\ r.consecutivePerfect = streak + 1
        /\ (errors > 0 /\ missed > 0) =>
              /\ r.newWordLength = (IF current - 1 > lo THEN current - 1 ELSE lo)
              /\ r.progressionType = "downgrade"
              /\ r.consecutivePerfect = 0
        /\ ((errors > 0) # (missed > 0)) =>
              /\ r.newWordLength = current
              /\ r.progressionType = "stay"
              /\ r.consecutivePerfect = 0
        /\ call.result.progression.newWordLength = r.newWordLength
        /\ call.result.progression.progressionType = r.progressionType
        /\ call.result.newState.consecutivePerfect = r.consecutivePerfect

\* a round with errors only, played above the floor, kept the length
C11_Witness ==
  /\ call.op = "updateDifficultyState"
  /\ call.stats.errorCount > 0
  /\ call.stats.missedLetters = 0
  /\ call.state.currentWordLength > call.state.minWordLength
  /\ difficultyState.currentWordLength = call.state.currentWordLength
  /\ call.result.progression.progressionType = "stay"

\* C12: every updateDifficultyState call, whatever the branch, increments
\* completedWords by exactly 1 and adds the completed word to usedWords, and
\* no word ever leaves usedWords.
C12_CompletedAndUsedGrow ==
  call.op = "updateDifficultyState" =>
    /\ difficultyState = call.result.newState
    /\ difficultyState.completedWords = call.state.completedWords + 1
    /\ call.completedWord \in difficultyState.usedWords
    /\ call.state.usedWords \subseteq difficultyState.usedWords
    /\ difficultyState.usedWords \subseteq
         call.state.usedWords \cup {call.completedWord}

\* a call that added a second word to a non-empty usedWords
C12_Witness ==
  /\ call.op = "updateDifficultyState"
  /\ call.state.usedWords # {}
  /\ call.completedWord \notin call.state.usedWords
  /\ Cardinality(difficultyState.usedWords) = Cardinality(call.state.usedWords) + 1

\* C13: selectWordAtLength(pool, length, usedWords) returns a word of
\* pool[length] that is not in usedWords when there is one, some word of
\* pool[length] when all of a non-empty pool[length] is used, and null when
\* pool[length] is absent or empty; it never returns a word of another
\* length.
C13_SelectWordAtLength ==
  call.op = "selectWordAtLength" =>
    LET pool == call.wordsByLength
        length == call.targetLength
        present == length \in DOMAIN pool /\ Len(pool[length]) > 0
        atLength == IF present
                      THEN {pool[length][i] : i \in 1..Len(pool[length])}
                      ELSE {}
    IN  /\ ~present => call.result = nullWord
        /\ (present /\ atLength \ call.usedWords # {}) =>
              call.result \in atLength \ call.usedWords
        /\ (present /\ atLength \subseteq call.usedWords) =>
              call.result \in atLength
        /\ call.result # nullWord =>
              /\ call.result \in atLength
              /\ Len(call.result) = length

\* the second of two words of one length chosen because the first is used
C13_Witness ==
  /\ call.op = "selectWordAtLength"
  /\ call.targetLength = 3
  /\ call.usedWords = {<<"a", "a", "a">>}
  /\ call.result = <<"b", "b", "b">>

\* the number of entries of bag equal to c
countOf(bag, c) == Cardinality({i \in 1..Len(bag) : bag[i] = c})

\* the distinct non-space characters of the lowercased rest after its first
othersOf(remaining) ==
  {remaining[i] : i \in 1..Len(remaining)} \ {remaining[1], " "}

\* the entries of the bag that are not fillers
nonFillerCount(remaining) ==
  NEXT_WEIGHT + OTHER_WEIGHT * Cardinality(othersOf(remaining))

bagCalled == call.op = "generateBagOfChars"

C15_OnlyRemainingLetters ==
  call.op \in {"generateBagOfChars", "generateBagOfCharsWithVariance"} =>
    LET remaining == remainingOf(call.typedProgress, call.fullTarget)
    IN  bagSet(call.result) \subseteq
          {remaining[i] : i \in 1..Len(remaining)} \cup {" "}

\* a call of either revision of a core transition on a finished word
finishedWordCall ==
  /\ call.op \in {"processKeypress", "updateBoardWithNewChar",
                  "processKeypressUnguarded", "updateBoardWithNewCharUnguarded"}
  /\ call.state.typedProgress = call.fullTarget

\* the outcome of the call: thrown or returned, and the value returned
callOutcome ==
  IF call.op \in {"processKeypress", "updateBoardWithNewChar"}
    THEN returned(call.result)
    ELSE call.outcome

\* C20: the core transitions are total on a finished word.  When
\* typedProgress already equals the target, processKeypress returns a
\* defined result that is never 'success', never extends typedProgress and
\* never reports isLevelComplete, and updateBoardWithNewChar returns a
\* defined state without incrementing missedLetters.
C20_TotalOnFinishedWord ==
  finishedWordCall =>
    /\ ~callOutcome.threw
    /\ call.op \in {"processKeypress", "processKeypressUnguarded"} =>
         /\ callOutcome.value.feedbackType \in FeedbackTypes \ {"success"}
         /\ callOutcome.value.newState.typedProgress = call.state.typedProgress
         /\ ~callOutcome.value.isLevelComplete
    /\ call.op \in {"updateBoardWithNewChar", "updateBoardWithNewCharUnguarded"} =>
         /\ Len(callOutcome.value.board) = BOARD_SIZE
         /\ callOutcome.value.missedLetters = call.state.missedLetters

\* C20 for the revision that tests nextExpectedChar: it never throws and
\* behaves as stated on a finished word
C20_GuardedRevisionTotal ==
  (finishedWordCall /\ call.op \in {"processKeypress", "updateBoardWithNewChar"}) =>
    C20_TotalOnFinishedWord

\* what stop() leaves alone
stopFrame ==
  <<gameState, currentTarget, bagOfChars, difficultyState, wordsByLength,
    options, isWaitingForContinue, transitionTimeouts>>

\* C16: stop() is idempotent.  A call of stop() right after a call of
\* stop() leaves the session as the first call left it: no interval live,
\* gameInterval null, input detached, game state and counters unchanged.
C16_StopIdempotent ==
  [][(call'.op = "stop" /\ pc' = "session") =>
       /\ gameInterval' = nullInterval
       /\ gameInterval \notin intervals'
       /\ ~inputAttached'
       /\ UNCHANGED stopFrame
       /\ call.op = "stop" =>
            UNCHANGED <<gameInterval, intervals, inputAttached>>]_vars

\* stop() called twice in a row during a round that had begun
C16_Witness ==
  /\ pc = "session"
  /\ call.op = "stop"
  /\ call.count = 2
  /\ ~exited
  /\ gameState.tickCount > 0
  /\ gameInterval = nullInterval
  /\ intervals = {}

\* a target has been selected and no selection has failed since
roundInProgress == pc = "session" /\ currentTarget # errorTarget

\* the bag is the one generated from the progress and the target
bagMatches ==
  bagOfChars = generateBagOfChars(gameState.typedProgress, currentTarget)

\* C17: whenever a round is in progress in startGame, bagOfChars equals
\* generateBagOfChars(gameState.typedProgress, currentTarget), so every
\* character a tick spawns is drawn from the bag of the current progress
\* and target.
C17_BagMatchesProgress ==
  [][/\ roundInProgress => bagMatches
     /\ roundInProgress' => bagMatches'
     /\ (roundInProgress /\ gameState'.tickCount = gameState.tickCount + 1) =>
          itemAt(gameState'.board, 0).generated \in
            bagSet(generateBagOfChars(gameState.typedProgress, currentTarget))]_vars

\* a later round, after a catch and a tick that followed it
C17_Witness ==
  /\ roundInProgress
  /\ difficultyState.completedWords > 0
  /\ Len(gameState.typedProgress) = 1
  /\ gameState.tickCount > CATCH_LINE_POSITION + 1
  /\ itemAt(gameState.board, CATCH_LINE_POSITION + 1).success

\* initializeWord found no word of currentWordLength
noWordAtRoundStart == pc = "session" /\ currentTarget = errorTarget

\* a target drawn from the pool, a fresh game state and a matching bag
playableRound ==
  /\ pc = "session"
  /\ \E length \in DOMAIN wordsByLength :
       \E i \in 1..Len(wordsByLength[length]) :
         currentTarget = wordsByLength[length][i]
  /\ gameState = createInitialGameState
  /\ bagMatches

\* stop() has been called since the last round start, or the process exited
sessionStopped == exited \/ ~inputAttached

\* C18: when word selection returns the no-word sentinel at a round start,
\* the session can afterwards still reach a playable round: a target drawn
\* from the pool, a freshly reset game state and a matching bag.  A session
\* whose timers fire and whose player answers 'y' reaches one unless it is
\* stopped first.
C18_NoWordIsRecoverable ==
  noWordAtRoundStart ~> (playableRound \/ sessionStopped)

\* once initializeWord has found no word, the target stays 'error' and the
\* word length stays the one that has no word, whatever happens next
C18_NoWordIsAbsorbing ==
  [][noWordAtRoundStart =>
       /\ currentTarget' = errorTarget
       /\ difficultyState' = difficultyState]_vars

\* the keypress that completes the round
roundCompletes ==
  /\ pc = "session"
  /\ gameState.typedProgress # currentTarget
  /\ gameState'.typedProgress = currentTarget
  /\ currentTarget' = currentTarget

\* C19: on every round completion in startGame, for every combination of
\* adaptiveDifficulty and showCompletionScreens, completedWords increases
\* by exactly 1 and the completed word is recorded in usedWords before the
\* next target is selected.
C19_CompletionFeedsDifficulty ==
  [][roundCompletes =>
       /\ difficultyState'.completedWords = difficultyState.completedWords + 1
       /\ currentTarget \in difficultyState'.usedWords]_vars

\* C19 restricted to sessions with completion screens, where it holds
C19_WithCompletionScreens ==
  [][(roundCompletes /\ options.showCompletionScreens) =>
       /\ difficultyState'.completedWords = difficultyState.completedWords + 1
       /\ currentTarget \in difficultyState'.usedWords]_vars

\* the score is the whole number n
scoreIs(score, n) == score.num = n * score.den

\* C21: calculateScore(level, wordsCompleted) is level / wordsCompleted * 100
\* clamped to [0, 100]; it is 0 when wordsCompleted = 0 or level < 0, and
\* for all integer inputs 0 <= r <= 100 (score(3,12) = 25, score(5,5) = 100,
\* score(10,5) = 100, score(0,0) = 0).
C21_ScoreClamped ==
  call.op = "calculateScore" =>
    LET level == call.completedLevels
        words == call.completedWords
        r == call.result
    IN  /\ r.den > 0
        /\ 0 <= r.num
        /\ r.num <= PERCENT * r.den
        /\ (words = 0 \/ level < 0) => scoreIs(r, 0)
        /\ (words > 0 /\ 0 <= level /\ level <= words) =>
              r.num * words = PERCENT * level * r.den
        /\ (words > 0 /\ level > words) => scoreIs(r, PERCENT)
        /\ (words < 0 /\ level >= 0) => scoreIs(r, 0)
        /\ (level = 3 /\ words = 12) => scoreIs(r, 25)
        /\ (level = 5 /\ words = 5) => scoreIs(r, 100)
        /\ (level = 10 /\ words = 5) => scoreIs(r, 100)
        /\ (level = 0 /\ words = 0) => scoreIs(r, 0)

\* score(10, 5): twice as many levels as words is capped at 100
C21_Witness ==
  /\ call.op = "calculateScore"
  /\ call.completedLevels = 10
  /\ call.completedWords = 5
  /\ scoreIs(call.result, PERCENT)

\* C22: getWordLengthFromLevel(getLevelFromWordLength(n)) = n for every word
\* length n, getLevelFromWordLength(getWordLengthFromLevel(l)) = l for every
\* level l, and the starting length 3 is level 1.
C22_LevelRoundTrip ==
  call.op = "levelConversions" =>
    /\ call.lengthOfLevel = call.n
    /\ call.levelOfLength = call.n
    /\ call.n = 3 => call.level = 1
    /\ call.n = 1 => call.wordLength = 3

\* the starting length converted to level 1 and back
C22_Witness ==
  /\ call.op = "levelConversions"
  /\ call.n = STARTING_WORD_LENGTH
  /\ call.level = 1
  /\ call.lengthOfLevel = STARTING_WORD_LENGTH

\* C23: for stats built by calculateStats(e, m) with e, m >= 0,
\* generateFeedback returns exactly one of four types: 'perfect' iff e = 0
\* and m = 0, 'good-accuracy' iff e = 0 and m > 0, 'good-efficiency' iff
\* e > 0 and m = 0, 'keep-practicing' iff e > 0 and m > 0; and isPerfect is
\* true iff e = 0 and m = 0.
C23_FeedbackLookup ==
  call.op = "generateFeedback" =>
    LET e == call.stats.errorCount
        m == call.stats.missedLetters
    IN  /\ call.result \in
              {"perfect", "good-accuracy", "good-efficiency", "keep-practicing"}
        /\ call.result = "perfect" <=> (e = 0 /\ m = 0)
        /\ call.result = "good-accuracy" <=> (e = 0 /\ m > 0)
        /\ call.result = "good-efficiency" <=> (e > 0 /\ m = 0)
        /\ call.result = "keep-practicing" <=> (e > 0 /\ m > 0)
        /\ call.stats.isPerfect <=> (e = 0 /\ m = 0)

\* missed letters but no error: good accuracy
C23_Witness ==
  /\ call.op = "generateFeedback"
  /\ call.stats.errorCount = 0
  /\ call.stats.missedLetters > 1
  /\ call.result = "good-accuracy"

\* the call was a keypress of the revision of game.ts
keypressCall == call.op = "processKeypress"

\* C24: on a 'success' keypress the sound cue is 'success<k>' with
\* k = min(catchCount before the increment, 29) and catchCount increases by
\* exactly 1; catchCount starts at 0 and nothing else changes it, so the cue
\* index starts at 0, rises by 1 per catch and never exceeds 29.
C24_SuccessSoundLadder ==
  /\ createInitialGameState.catchCount = 0
  /\ keypressCall =>
       LET before == call.state.catchCount
           result == call.result
       IN  IF result.feedbackType = "success"
             THEN /\ \E k \in 0..SUCCESS_SOUND_CAP :
                       /\ result.shouldPlaySound = successSound(k)
                       /\ k = IF before < SUCCESS_SOUND_CAP
                                THEN before ELSE SUCCESS_SOUND_CAP
                  /\ result.newState.catchCount = before + 1
             ELSE /\ result.newState.catchCount = before
                  /\ \A k \in 0..(SUCCESS_SOUND_CAP + 2) :
                       result.shouldPlaySound # successSound(k)
  /\ call.op = "updateBoardWithNewChar" =>
       call.result.catchCount = call.state.catchCount

\* the thirty-first catch of a round still plays the top cue
C24_Witness ==
  /\ keypressCall
  /\ call.result.feedbackType = "success"
  /\ call.state.catchCount = SUCCESS_SOUND_CAP + 1
  /\ call.result.shouldPlaySound = successSound(SUCCESS_SOUND_CAP)
  /\ gameState.catchCount = SUCCESS_SOUND_CAP + 2

\* the target has no space in it
spaceFree(target) == \A i \in 1..Len(target) : target[i] # " "

\* the positions in the corpus of the space-free entries of a length
entriesAt(levels, length) ==
  {i \in 1..Len(levels) :
     spaceFree(levels[i].target) /\ Len(levels[i].target) = length}

\* the k-th smallest member of a set of positions
kthOf(positions, k) ==
  CHOOSE i \in positions : Cardinality({j \in positions : j < i}) = k - 1

\* C26: organizeWordsByLength(filterSingleWords(corpus)) maps each length L
\* to exactly the corpus entries without a space whose length is L, in
\* corpus order: no entry containing a space is in the pool, every
\* space-free entry is under its own length, and no key has an empty list.
C26_PoolGroupsSingleWords ==
  call.op = "organizeWordsByLength" =>
    LET levels == call.levels
        pool == call.result
    IN  /\ DOMAIN pool =
              {length \in 0..(MaxWordLength + 1) : entriesAt(levels, length) # {}}
        /\ \A length \in DOMAIN pool :
              /\ Len(pool[length]) = Cardinality(entriesAt(levels, length))
              /\ Len(pool[length]) > 0
              /\ \A k \in 1..Len(pool[length]) :
                    /\ pool[length][k] =
                          levels[kthOf(entriesAt(levels, length), k)].target
                    /\ spaceFree(pool[length][k])
        /\ \A i \in 1..Len(levels) :
              spaceFree(levels[i].target) =>
                /\ Len(levels[i].target) \in DOMAIN pool
                /\ \E k \in 1..Len(pool[Len(levels[i].target)]) :
                      pool[Len(levels[i].target)][k] = levels[i].target

\* a corpus of two words of one length around an entry with a space
C26_Witness ==
  /\ call.op = "organizeWordsByLength"
  /\ call.levels = <<Level(<<"b", "b", "b">>), Level(<<"a", " ", "b">>),
                     Level(<<"a", "a", "a">>)>>
  /\ call.result = [length \in {3} |-> <<<<"b", "b", "b">>, <<"a", "a", "a">>>>]

\* a new round begins on this step: initializeWord() found a word
roundStarts ==
  /\ pc = "session"
  /\ currentTarget' # errorTarget
  /\ gameState' = createInitialGameState
  /\ ~isWaitingForContinue'
  /\ \/ isWaitingForContinue
     \/ transitionTimeouts' < transitionTimeouts

\* a word of the current length has not been completed yet
unusedWordRemains ==
  LET wordsAtLength == wordsAt(wordsByLength, difficultyState.currentWordLength)
  IN  \E i \in 1..Len(wordsAtLength) :
        wordsAtLength[i] \notin difficultyState.usedWords

\* C25: with completion screens on, the target chosen for a new round is
\* never a member of usedWords as long as pool[currentWordLength] still has
\* a word that has not been completed; a repeat is chosen only once every
\* word of that length has been used.
C25_NoRepeatWhileUnused ==
  [][(roundStarts /\ options.showCompletionScreens) =>
       /\ unusedWordRemains => currentTarget' \notin difficultyState.usedWords
       /\ currentTarget' \in difficultyState.usedWords =>
            \A i \in 1..Len(wordsAt(wordsByLength,
                                    difficultyState.currentWordLength)) :
              wordsAt(wordsByLength, difficultyState.currentWordLength)[i]
                \in difficultyState.usedWords]_vars

\* the second round of a session over two words of length 3: the first
\* word is used, the round runs on the other one
C25_Witness ==
  /\ pc = "session"
  /\ options.showCompletionScreens
  /\ ~isWaitingForContinue
  /\ difficultyState.currentWordLength = STARTING_WORD_LENGTH
  /\ Cardinality(difficultyState.usedWords) = 1
  /\ Len(wordsAt(wordsByLength, STARTING_WORD_LENGTH)) = 2
  /\ currentTarget \in PoolWords
  /\ currentTarget \notin difficultyState.usedWords
  /\ gameState = createInitialGameState

\* a session that has used both words of length 3 starts a third round
C25_RepeatReached ==
  /\ pc = "session"
  /\ options.showCompletionScreens
  /\ ~isWaitingForContinue
  /\ Cardinality(difficultyState.usedWords) = 2
  /\ currentTarget \in difficultyState.usedWords
  /\ gameState = createInitialGameState

\* stop() has run and the process lives on: stop() alone detaches the input
stopHasRun == pc = "session" /\ ~inputAttached /\ ~exited

\* C27: once stop() has run, the tick source stays halted: whatever timer
\* is still pending, the one-second round transition included, no new tick
\* interval is started and no later tick changes gameState (a tick is the
\* only step that raises tickCount).
C27_StopHaltsTicks ==
  [][stopHasRun =>
       /\ intervals' \subseteq intervals
       /\ gameState'.tickCount <= gameState.tickCount]_vars

\* after stop() an interval is live and its ticks have moved the board of a
\* round that began after the stop
C27_TicksAfterStop ==
  /\ stopHasRun
  /\ intervals # {}
  /\ transitionTimeouts = 0
  /\ currentTarget # errorTarget
  /\ gameState.tickCount > 0

\* the session shows the completion screen and waits for the choice
waitingForContinue ==
  pc = "session" /\ options.showCompletionScreens /\ isWaitingForContinue
    /\ ~exited

\* what a step taken on the completion screen may do
waitingRules ==
  /\ intervals = {}
  /\ waitingForContinue' => intervals' = {}
  /\ gameState'.tickCount <= gameState.tickCount
  /\ <<gameState', currentTarget', bagOfChars', difficultyState'>>
        # <<gameState, currentTarget, bagOfChars, difficultyState>> =>
          /\ ~isWaitingForContinue'
          /\ gameState' = createInitialGameState
          /\ intervals' # {}
  /\ (inputAttached /\ continueSession) =>
          /\ ~isWaitingForContinue'
          /\ gameState' = createInitialGameState
          /\ currentTarget' \in PoolWords
          /\ intervals' # {}
  /\ (inputAttached /\ quitSession) =>
          /\ intervals' = {}
          /\ ~inputAttached'
          /\ exited'

\* C28: while the session waits for the continue choice after a completed
\* round (completion screens on), the tick source is halted and ticks leave
\* gameState unchanged; an input other than y/Y/n/N leaves gameState,
\* currentTarget, bagOfChars and difficultyState unchanged; y/Y starts the
\* next round and restarts the tick source, n/N stops the session.
C28_WaitingForContinue == [][waitingForContinue => waitingRules]_vars

\* the same while every round finds a word
C28_WhenWordFound ==
  [][(waitingForContinue /\ currentTarget # errorTarget
        /\ currentTarget' # errorTarget) => waitingRules]_vars

\* the completion screen with the tick interval running
C28_TicksWhileWaiting ==
  /\ waitingForContinue
  /\ inputAttached
  /\ currentTarget = errorTarget
  /\ intervals # {}

\* C29: at most one tick interval is active at any time in a session:
\* whatever the sequence of round starts, completions, continue choices,
\* transition timeouts and stop() calls, startGameLoop never leaves two
\* tick sources running; the one that runs is the one gameInterval holds.
C29_OneTickSource ==
  pc = "session" =>
    /\ Cardinality(intervals) <= 1
    /\ intervals = {gameInterval} \ {nullInterval}

\* a later round, begun by the transition timeout, ticking on one interval
C29_Witness ==
  /\ pc = "session"
  /\ ~options.showCompletionScreens
  /\ difficultyState.completedWords > 0
  /\ transitionTimeouts = 0
  /\ intervals = {gameInterval}
  /\ gameState.tickCount > 0
  /\ Len(gameState.typedProgress) = 0

\* the state of a round that has just begun
freshRound(state) ==
  /\ Len(state.board) = BOARD_SIZE
  /\ \A i \in 1..BOARD_SIZE : state.board[i] = undefinedItem
  /\ state.typedProgress = <<>>
  /\ state.errorCount = 0
  /\ state.missedLetters = 0
  /\ state.catchCount = 0
  /\ state.tickCount = 0

\* a round begins on this step: after the y choice or the transition delay
roundBegins ==
  /\ pc = "session"
  /\ currentTarget' # errorTarget
  /\ \/ isWaitingForContinue /\ ~isWaitingForContinue'
     \/ transitionTimeouts' < transitionTimeouts

\* the round ends on this step and its stats go to the difficulty controller
statsGiven ==
  /\ pc = "session"
  /\ options.showCompletionScreens
  /\ ~isWaitingForContinue
  /\ isWaitingForContinue'

\* what the steps of a session do to the state of the round
roundStateRules ==
  /\ roundBegins => freshRound(gameState')
  /\ statsGiven =>
       /\ gameState'.errorCount >= gameState.errorCount
       /\ gameState'.missedLetters = gameState.missedLetters
       /\ difficultyState' =
            updateDifficultyState(
              difficultyState, currentTarget,
              calculateStats(gameState'.errorCount,
                             gameState'.missedLetters)).newState

\* C30: every round of a session starts from the initial game state: when a
\* round begins (the first round, after the y choice or after the
\* transition delay) the board has 16 empty slots, typedProgress is empty
\* and errorCount, missedLetters, catchCount and tickCount are 0, so the
\* stats given to the difficulty controller are the counts of the round
\* just completed.
C30_RoundStartsFresh ==
  /\ (pc = "session" /\ currentTarget # errorTarget) => freshRound(gameState)
  /\ [][roundStateRules]_vars

\* the second round has begun after a first round with an error in it
C30_Witness ==
  /\ pc = "session"
  /\ options.showCompletionScreens
  /\ ~isWaitingForContinue
  /\ difficultyState.completedWords = 1
  /\ difficultyState.consecutivePerfect = 0
  /\ currentTarget # errorTarget
  /\ freshRound(gameState)

\* the characters on a board
generatedOn(board) ==
  {board[i].generated : i \in {j \in 1..Len(board) : board[j].defined}}

\* some sequence of catches leads from this progress to isLevelComplete:
\* each catch takes a character the bag of the moment spawns, or one that
\* is on the board already, which the ticks carry to the catch line
RECURSIVE canComplete(_, _, _)
canComplete(typedProgress, fullTarget, onBoard) ==
  LET nextExpectedChar == charAt(fullTarget, Len(typedProgress))
      spawned == bagSet(generateBagOfChars(typedProgress, fullTarget)) \cup onBoard
  IN  /\ nextExpectedChar # undefinedChar
      /\ \E letterAtSelection \in spawned :
            /\ isSuccess(letterAtSelection, letterAtSelection, nextExpectedChar)
            /\ LET newTypedProgress == appendCaught(typedProgress, letterAtSelection)
               IN  \/ newTypedProgress = fullTarget
                   \/ canComplete(newTypedProgress, fullTarget, onBoard)

\* C31: every round can be completed: for every target word, whatever its
\* letter case, from every reachable in-round state some sequence of ticks
\* and keypresses reaches isLevelComplete = true (so that a fair bag and a
\* player who catches every needed letter complete the round).
C31_RoundCanComplete ==
  pc = "round" =>
    canComplete(gameState.typedProgress, currentTarget,
                generatedOn(gameState.board))

\* the same for the targets written in small letters
C31_LowercaseRoundCanComplete ==
  (pc = "round" /\ lowerString(currentTarget) = currentTarget) =>
    canComplete(gameState.typedProgress, currentTarget,
                generatedOn(gameState.board))

\* every letter of a target with a capital is caught and the round goes on
C31_CaughtAllNeverComplete ==
  /\ pc = "round"
  /\ currentTarget = <<"A", "b">>
  /\ gameState.typedProgress = <<"a", "b">>
  /\ gameState.catchCount = 2

\* no round on a target with a capital is ever completed
C31_CapitalNeverCompletes ==
  lowerString(currentTarget) # currentTarget => pc # "complete"

\* the step is a 'success' keypress: nothing else raises catchCount
successStep == gameState'.catchCount = gameState.catchCount + 1

\* C32: a board slot is caught at most once: a slot already marked caught
\* never yields a second 'success', also when the target has a doubled
\* letter and the key is pressed twice between two ticks; so every catch
\* counted in catchCount marks a slot that was not caught before.
C32_SlotCaughtOnce ==
  [][(pc = "round" /\ successStep) =>
       LET itemAtCatchLine == itemAt(gameState.board, CATCH_LINE_POSITION)
       IN  /\ itemAtCatchLine.defined
           /\ ~itemAtCatchLine.success
           /\ itemAt(gameState'.board, CATCH_LINE_POSITION).success]_vars

\* two catches counted while no more than one slot was ever at the catch
\* line: the doubled letter of 'bb' caught twice on one slot
C32_OneSlotCaughtTwice ==
  /\ currentTarget = <<"b", "b">>
  /\ gameState.catchCount = 2
  /\ gameState.tickCount = CATCH_LINE_POSITION + 1
  /\ pc = "complete"

\* a filler blank sits at the catch line of the state the key was pressed in
blankAtCatchLine ==
  /\ keypressCall
  /\ itemAt(call.state.board, CATCH_LINE_POSITION).defined
  /\ itemAt(call.state.board, CATCH_LINE_POSITION).generated = " "
  /\ spaceFree(call.fullTarget)

\* C33: a filler blank ' ' at the catch line is an occupied slot for
\* processKeypress: for a target without spaces a keypress made while a
\* blank sits at index 13 is classified 'miss', or 'error' when the pressed
\* key is the blank itself, and increments errorCount by 1; it is never
\* classified 'empty'.
C33_BlankIsOccupied ==
  blankAtCatchLine =>
    /\ call.result.feedbackType =
         IF call.pressedChar = " " THEN "error" ELSE "miss"
    /\ call.result.feedbackType # "empty"
    /\ call.result.newState =
         [call.state EXCEPT !.errorCount = call.state.errorCount + 1]
    /\ ~call.result.isLevelComplete

\* a letter key pressed on a blank: a miss
C33_Witness ==
  /\ blankAtCatchLine
  /\ call.pressedChar = "a"
  /\ call.result.feedbackType = "miss"
  /\ gameState.errorCount = call.state.errorCount + 1

\* the blank key pressed on a blank: an error
C33_BlankKeyOnBlank ==
  /\ blankAtCatchLine
  /\ call.pressedChar = " "
  /\ call.result.feedbackType = "error"

\* the ticks a slot needs from its spawn to the tick that examines it
TICKS_TO_EXAMINE == CATCH_LINE_POSITION + 1

\* missedLetters <= max(0, tickCount - 14)
missesWithinTicks(state) ==
  state.missedLetters <= Max(0, state.tickCount - TICKS_TO_EXAMINE)

\* C34: within a round each tick increments missedLetters by at most 1,
\* nothing else changes it, and a spawned slot is examined for a miss only
\* on the tick on which it leaves index 13; hence
\* missedLetters <= max(0, tickCount - 14) in every reachable state.
C34_MissesWithinTicks ==
  [][/\ missesWithinTicks(gameState)
     /\ missesWithinTicks(gameState')
     /\ gameState'.missedLetters \in
          {gameState.missedLetters, gameState.missedLetters + 1}
     /\ gameState'.missedLetters # gameState.missedLetters =>
          /\ gameState'.tickCount = gameState.tickCount + 1
          /\ itemAt(gameState.board, CATCH_LINE_POSITION).defined
          /\ itemAt(gameState'.board, CATCH_LINE_POSITION + 1) =
               itemAt(gameState.board, CATCH_LINE_POSITION)]_vars

\* the first slot of the round was needed and left index 13 uncaught: the
\* bound is met on tick 15
C34_Witness ==
  /\ pc = "round"
  /\ gameState.tickCount = TICKS_TO_EXAMINE + 1
  /\ gameState.missedLetters = 1
  /\ itemAt(gameState.board, CATCH_LINE_POSITION + 1).defined
  /\ ~itemAt(gameState.board, CATCH_LINE_POSITION + 1).success

\* catchCount = len(typedProgress) <= len(target)
catchesAreProgress(state, fullTarget) ==
  /\ state.catchCount = Len(state.typedProgress)
  /\ Len(state.typedProgress) <= Len(fullTarget)

\* C35: in every reachable state of a round
\* catchCount = len(typedProgress) <= len(target): the two grow together,
\* by exactly 1, only on a 'success' keypress (a step that is no tick and
\* marks the slot at the catch line), and nothing else changes either.
C35_CatchesAreProgress ==
  [][/\ catchesAreProgress(gameState, currentTarget)
     /\ catchesAreProgress(gameState', currentTarget')
     /\ (gameState'.catchCount # gameState.catchCount
           \/ gameState'.typedProgress # gameState.typedProgress) =>
          /\ gameState'.catchCount = gameState.catchCount + 1
          /\ Len(gameState'.typedProgress) = Len(gameState.typedProgress) + 1
          /\ SubSeq(gameState'.typedProgress, 1, Len(gameState.typedProgress))
               = gameState.typedProgress
          /\ gameState'.tickCount = gameState.tickCount
          /\ gameState'.errorCount = gameState.errorCount
          /\ itemAt(gameState'.board, CATCH_LINE_POSITION).success]_vars

\* a completed round with an error in it: as many catches as the target
\* has letters
C35_Witness ==
  /\ pc = "complete"
  /\ gameState.errorCount > 0
  /\ gameState.catchCount = Len(currentTarget)
  /\ gameState.typedProgress = currentTarget

C37_TypeAtTheBounds ==
  call.op = "updateDifficultyState" =>
    LET current == call.state.currentWordLength
        progression == call.result.progression
    IN  /\ (call.stats.isPerfect /\ current = call.state.maxWordLength) =>
              /\ progression.progressionType = "upgrade"
              /\ progression.newWordLength = call.state.maxWordLength
              /\ difficultyState.currentWordLength = current
        /\ (call.stats.errorCount > 0 /\ call.stats.missedLetters > 0
              /\ current = call.state.minWordLength) =>
              /\ progression.progressionType = "downgrade"
              /\ progression.newWordLength = call.state.minWordLength
              /\ difficultyState.currentWordLength = current
        /\ progression.progressionType = "stay" =>
              /\ progression.newWordLength = current
              /\ difficultyState.currentWordLength = current

\* a perfect round at the ceiling, reached by upgrades: 'upgrade', same length
C37_Witness ==
  /\ call.op = "updateDifficultyState"
  /\ call.stats.isPerfect
  /\ call.state.currentWordLength = call.state.maxWordLength
  /\ call.state.maxWordLength > call.state.minWordLength
  /\ call.result.progression.progressionType = "upgrade"
  /\ difficultyState.currentWordLength = call.state.maxWordLength

\* a round with errors and misses at the floor: 'downgrade', same length
C37_DowngradeAtFloor ==
  /\ call.op = "updateDifficultyState"
  /\ call.stats.errorCount > 0
  /\ call.stats.missedLetters > 0
  /\ call.state.currentWordLength = call.state.minWordLength
  /\ call.state.maxWordLength > call.state.minWordLength
  /\ call.result.progression.progressionType = "downgrade"
  /\ difficultyState.currentWordLength = call.state.minWordLength

\* how many of the three predicates hold
predicatesHolding(stats) ==
  Cardinality({name \in {"upgrade", "downgrade", "stay"} :
                 CASE name = "upgrade" -> shouldUpgrade(stats)
                   [] name = "downgrade" -> shouldDowngrade(stats)
                   [] OTHER -> shouldStay(stats)})

\* C38: for every round outcome (errorCount, missedLetters) the completion
\* feedback and the progression agree and the three predicates partition
\* the outcomes: exactly one of shouldUpgrade, shouldDowngrade, shouldStay
\* holds; progressionType is 'downgrade' iff the feedback type is
\* 'keep-practicing', the round is perfect iff the feedback type is
\* 'perfect', and the feedback type is 'good-accuracy' or 'good-efficiency'
\* iff shouldStay holds.
C38_FeedbackAgreesWithProgression ==
  call.op = "updateDifficultyState" =>
    LET stats == call.stats
        progressionType == call.result.progression.progressionType
    IN  /\ predicatesHolding(stats) = 1
        /\ progressionType = "downgrade" <=> call.feedback = "keep-practicing"
        /\ shouldDowngrade(stats) <=> call.feedback = "keep-practicing"
        /\ stats.isPerfect <=> call.feedback = "perfect"
        /\ shouldUpgrade(stats) <=> call.feedback = "perfect"
        /\ shouldStay(stats) <=>
             call.feedback \in {"good-accuracy", "good-efficiency"}

\* a round with an error and no miss: good efficiency, and the length stays
C38_Witness ==
  /\ call.op = "updateDifficultyState"
  /\ call.stats.errorCount > 0
  /\ call.stats.missedLetters = 0
  /\ call.feedback = "good-efficiency"
  /\ shouldStay(call.stats)
  /\ call.result.progression.progressionType = "stay"

====
